---- MODULE Spec2Model ----
(***************************************************************************)
(* GovProp OCR microservice (Express application, src/unnamed/part_001;    *)
(* src/server.js and src/unnamed/part_000 carry the same verifyKey and     *)
(* /parse code).  One request travels down the middleware stack            *)
(*   express.json -> cors -> route chain -> (on next(err)) error handler   *)
(* and every await of a collaborator (fetch, arrayBuffer, pdfParse,        *)
(* Tesseract.recognize) is a suspension point that the collaborator's      *)
(* settlement resumes.  Strings the code inspects character by character   *)
(* (mimetype, extracted text) are sequences of one-character strings.      *)
(***************************************************************************)
EXTENDS Integers, Sequences, FiniteSets, TLC

VARIABLES cfgKey, req, pc, stack, body, file, err, sent, calls, outs, escaped

vars == <<cfgKey, req, pc, stack, body, file, err, sent, calls, outs, escaped>>

\* Connections: requests on one connection follow each other, requests on
\* different connections are in flight together.
Conn == {"c1", "c2"}

\* JavaScript undefined in a slot that otherwise holds a string.
Undefined == "undefined"

\* JavaScript truthiness of a string-or-undefined value.
Truthy(v) == v # Undefined /\ v # ""

---------------------------------------------------------------------------
\* Character-level strings.

S_application_pdf == <<"a","p","p","l","i","c","a","t","i","o","n","/","p","d","f">>
S_application_x_pdf == <<"a","p","p","l","i","c","a","t","i","o","n","/","x","-","p","d","f">>
S_image_slash == <<"i","m","a","g","e","/">>
S_image_png == <<"i","m","a","g","e","/","p","n","g">>
S_imagex_png == <<"i","m","a","g","e","x","/","p","n","g">>
S_text_plain == <<"t","e","x","t","/","p","l","a","i","n">>

\* String.prototype.startsWith
StartsWith(s, p) == Len(s) >= Len(p) /\ SubSeq(s, 1, Len(p)) = p

WhiteSpace == {" ", "\n", "\t"}

\* String.prototype.trim
RECURSIVE TrimStart(_)
TrimStart(s) ==
  IF s # <<>> /\ Head(s) \in WhiteSpace THEN TrimStart(Tail(s)) ELSE s

RECURSIVE TrimEnd(_)
TrimEnd(s) ==
  IF s # <<>> /\ s[Len(s)] \in WhiteSpace THEN TrimEnd(SubSeq(s, 1, Len(s) - 1)) ELSE s

Trim(s) == TrimEnd(TrimStart(s))

---------------------------------------------------------------------------
\* Configuration.

MAX_FILE_SIZE == 10 * 1024 * 1024

\* process.env.OCR_API_KEY: unset, set to the empty string, or set to a key.
CfgKeys == {Undefined, "", "k1"}

---------------------------------------------------------------------------
\* Inputs: requests and collaborator outcomes.

Routes == {"GET /", "GET /healthz", "POST /parse", "POST /api/ocr"}

\* req.headers["x-api-key"]
ApiKeyHeaders == {Undefined, "k1", "k2"}

FileUrls == {Undefined, "", "https://files.example/doc.pdf"}

Mimes == {S_application_pdf, S_application_x_pdf, S_image_png, S_image_slash,
          S_imagex_png, S_text_plain}

Sizes == {1, MAX_FILE_SIZE, MAX_FILE_SIZE + 1}

FieldNames == {"file", "doc"}

Parts == [fieldname : FieldNames, mimetype : Mimes, size : Sizes]

\* The request entity: none, JSON (well-formed, malformed, over the 2mb
\* limit), multipart (well-formed with at most one file part, or malformed).
Bodies ==
  {[kind |-> "none"], [kind |-> "json_malformed"], [kind |-> "json_too_large"],
   [kind |-> "multipart_malformed"], [kind |-> "multipart", parts |-> <<>>]}
  \cup {[kind |-> "json", file_url |-> u] : u \in FileUrls}
  \cup {[kind |-> "multipart", parts |-> <<p>>] : p \in Parts}

Requests == [route : Routes, apiKey : ApiKeyHeaders, entity : Bodies]

NoReq == [route |-> "none"]

Msgs == {"ECONNREFUSED", "Invalid PDF structure"}

Throws == {[kind |-> "throw", message |-> m] : m \in Msgs}

Statuses == {200, 204, 301, 404, 503}

FetchOutcomes == Throws \cup {[kind |-> "response", status |-> s] : s \in Statuses}

ArrayBufferOutcomes == Throws \cup {[kind |-> "ok"]}

Texts == {<<>>, <<" ", "h", "i", "\n">>}

\* What pdfParse / Tesseract.recognize resolve to: a result with a text, or
\* one without (data?.text undefined).
Extracted ==
  {[kind |-> "ok", hasText |-> TRUE, text |-> t] : t \in Texts}
  \cup {[kind |-> "ok", hasText |-> FALSE, text |-> <<>>]}

ExtractOutcomes == Throws \cup Extracted

---------------------------------------------------------------------------
\* Responses: res.status(s).json(b); res.json(b) alone answers 200.

Json(s, b) == [status |-> s, body |-> b]

Unauthorized == Json(401, [error |-> "Unauthorized"])

HealthResponse ==
  Json(200, [ok |-> TRUE, service |-> "GovProp OCR",
             endpoints |-> [parseUrl |-> "POST /parse",
                            ocrUpload |-> "POST /api/ocr",
                            health |-> "GET /healthz"]])

MissingFileUrl == Json(400, [error |-> "Missing file_url"])

\* The 502 body without the upstream status.
FetchFailed_NoStatus(status) ==
  Json(502, [error |-> "Failed to fetch PDF"])

FetchFailed(status) ==
  Json(502, [error |-> "Failed to fetch PDF (" \o ToString(status) \o ")"])

ParseSuccess(text) == Json(200, [extracted_text |-> text])

NoFileUploaded == Json(400, [error |-> "No file uploaded"])

UnsupportedType ==
  Json(400, [error |-> "Unsupported file type. Upload a PDF or image."])

OcrSuccess(text, mimetype) ==
  Json(200, [success |-> TRUE, text |-> text, fileType |-> mimetype])

\* What a handler step does with the response and the chain: the responses it
\* sends, and whether it calls next(), awaits a collaborator, or lets a
\* failure leave the handler ("throw").
Out(send, then) == [send |-> send, then |-> then]

---------------------------------------------------------------------------
\* Middleware and handler bodies.

\* The health route behind the API-key guard.
RouteChain_GuardedHealth(route) ==
  CASE route \in {"GET /", "GET /healthz"} -> <<"verifyKey", "health">>
    [] route = "POST /parse" -> <<"verifyKey", "parse">>
    [] route = "POST /api/ocr" -> <<"verifyKey", "upload.single", "ocr">>

\* /api/ocr with the upload parser in front of the guard.
RouteChain_UploadFirst(route) ==
  CASE route \in {"GET /", "GET /healthz"} -> <<"health">>
    [] route = "POST /parse" -> <<"verifyKey", "parse">>
    [] route = "POST /api/ocr" -> <<"upload.single", "verifyKey", "ocr">>

\* The middleware a request of each route traverses after express.json and
\* cors: app.get([...], health), app.post("/parse", verifyKey, handler),
\* app.post("/api/ocr", verifyKey, upload.single("file"), handler).
RouteChain(route) ==
  CASE route \in {"GET /", "GET /healthz"} -> <<"health">>
    [] route = "POST /parse" -> <<"verifyKey", "parse">>
    [] route = "POST /api/ocr" -> <<"verifyKey", "upload.single", "ocr">>

AppStack(route) == <<"express.json", "cors">> \o RouteChain(route)

\* express.json({limit: "2mb"}): a JSON entity is parsed into req.body, a
\* malformed or oversized one is passed to next(err), any other entity is
\* left alone (req.body stays empty).
JsonParse(entity) ==
  CASE entity.kind = "json" -> [ok |-> TRUE, body |-> [file_url |-> entity.file_url]]
    [] entity.kind = "json_malformed" ->
         [ok |-> FALSE, error |-> [name |-> "SyntaxError", code |-> "entity.parse.failed"]]
    [] entity.kind = "json_too_large" ->
         [ok |-> FALSE, error |-> [name |-> "PayloadTooLargeError", code |-> "entity.too.large"]]
    [] OTHER -> [ok |-> TRUE, body |-> [file_url |-> Undefined]]

\* verifyKey that only looks whether the header is there.
VerifyKey_PresenceOnly(cfg, key) ==
  IF ~Truthy(cfg) THEN Out(<<>>, "next")
  ELSE IF key = Undefined THEN Out(<<Unauthorized>>, "end")
  ELSE Out(<<>>, "next")

\* verifyKey without the `return` in front of res.status(401).
VerifyKey_NoReturn(cfg, key) ==
  IF ~Truthy(cfg) THEN Out(<<>>, "next")
  ELSE IF key # cfg THEN Out(<<Unauthorized>>, "next")
  ELSE Out(<<>>, "next")

\* verifyKey(req, res, next)
VerifyKey(cfg, key) ==
  IF ~Truthy(cfg) THEN Out(<<>>, "next")
  ELSE IF key # cfg THEN Out(<<Unauthorized>>, "end")
  ELSE Out(<<>>, "next")

\* upload.single("file") with limits.fileSize = MAX_FILE_SIZE: a non-multipart
\* request passes with no req.file; a file part under another field name is
\* LIMIT_UNEXPECTED_FILE; a file part longer than the limit is LIMIT_FILE_SIZE.
UploadSingle(entity) ==
  CASE entity.kind = "multipart_malformed" ->
         [ok |-> FALSE, error |-> [name |-> "Error", code |-> "Unexpected end of form"]]
    [] entity.kind = "multipart" /\ entity.parts # <<>> ->
         LET p == entity.parts[1] IN
         IF p.fieldname # "file"
           THEN [ok |-> FALSE, error |-> [name |-> "MulterError", code |-> "LIMIT_UNEXPECTED_FILE"]]
         ELSE IF p.size > MAX_FILE_SIZE
           THEN [ok |-> FALSE, error |-> [name |-> "MulterError", code |-> "LIMIT_FILE_SIZE"]]
         ELSE [ok |-> TRUE, reqFile |-> [hasFile |-> TRUE,
                                         file |-> [mimetype |-> p.mimetype, size |-> p.size]]]
    [] OTHER -> [ok |-> TRUE, reqFile |-> [hasFile |-> FALSE]]

\* The error handler without its LIMIT_FILE_SIZE branch.
ErrorHandler_Generic(error) ==
  Json(500, [error |-> "Unexpected error"])

\* The error-handling middleware at the end of the stack.
ErrorHandler(error) ==
  IF error.name = "MulterError" /\ error.code = "LIMIT_FILE_SIZE"
    THEN Json(400, [error |-> "File too large (max 10MB)"])
    ELSE Json(500, [error |-> "Unexpected error"])

\* GET / and GET /healthz
HealthHandler == Out(<<HealthResponse>>, "end")

\* /parse testing `file_url === undefined` in place of `!file_url`.
ParseBegins_UndefinedOnly(reqBody) ==
  IF reqBody.file_url = Undefined THEN Out(<<MissingFileUrl>>, "end")
  ELSE Out(<<>>, "fetch")

\* /parse: const { file_url } = req.body || {}; if (!file_url) return 400
ParseBegins(reqBody) ==
  IF ~Truthy(reqBody.file_url) THEN Out(<<MissingFileUrl>>, "end")
  ELSE Out(<<>>, "fetch")

\* node-fetch Response.ok
Ok(status) == status >= 200 /\ status < 300

\* /parse catch that passes the failure's message on.
ParseCatch_Leaky(e) ==
  Out(<<Json(500, [error |-> "Failed to parse document", message |-> e.message])>>, "end")

\* /parse: catch (e)
ParseCatch(e) == Out(<<Json(500, [error |-> "Failed to parse document"])>>, "end")

\* /parse after `await fetch(file_url)`
ParseFetched(o) ==
  IF o.kind = "throw" THEN ParseCatch(o)
  ELSE IF ~Ok(o.status) THEN Out(<<FetchFailed(o.status)>>, "end")
  ELSE Out(<<>>, "arrayBuffer")

\* /parse after `await r.arrayBuffer()`
ParseRead(o) ==
  IF o.kind = "throw" THEN ParseCatch(o) ELSE Out(<<>>, "pdfParse")

\* (data?.text || "").trim()
TextOf(o) == Trim(IF o.hasText THEN o.text ELSE <<>>)

\* /parse after `await pdfParse(buf)`
ParseExtracted(o) ==
  IF o.kind = "throw" THEN ParseCatch(o)
  ELSE Out(<<ParseSuccess(TextOf(o))>>, "end")

\* Dispatch on a prefix for both branches.
Dispatch_Prefix(mimetype) ==
  IF StartsWith(mimetype, <<"a","p","p","l","i","c","a","t","i","o","n","/">>) THEN "pdfParse"
  ELSE IF StartsWith(mimetype, <<"i","m","a","g","e">>) THEN "recognize"
  ELSE "unsupported"

\* /api/ocr: the branch taken on the declared content type.
Dispatch(mimetype) ==
  IF mimetype = S_application_pdf THEN "pdfParse"
  ELSE IF StartsWith(mimetype, S_image_slash) THEN "recognize"
  ELSE "unsupported"

\* /api/ocr up to its await
OcrBegins(reqFile) ==
  IF ~reqFile.hasFile THEN Out(<<NoFileUploaded>>, "end")
  ELSE IF Dispatch(reqFile.file.mimetype) = "unsupported" THEN Out(<<UnsupportedType>>, "end")
  ELSE Out(<<>>, Dispatch(reqFile.file.mimetype))

\* /api/ocr: catch (error)
OcrCatch(e) ==
  Out(<<Json(500, [error |-> "Failed to process file", message |-> e.message])>>, "end")

\* /api/ocr after `await pdfParse(buffer)` or `await Tesseract.recognize(...)`
OcrExtracted(o, mimetype) ==
  IF o.kind = "throw" THEN OcrCatch(o)
  ELSE Out(<<OcrSuccess(TextOf(o), mimetype)>>, "end")

---------------------------------------------------------------------------
\* The state machine.

NoErr == [name |-> "none"]

NoFile == [hasFile |-> FALSE]

EmptyBody == [file_url |-> Undefined]

Collaborators == {"fetch", "arrayBuffer", "pdfParse", "recognize"}

InFlight(c) == pc[c] \notin {"idle", "done", "closed"}

\* The head of the stack is the middleware about to run (or suspended).
Running(c, mw) == pc[c] = "mw" /\ stack[c] # <<>> /\ Head(stack[c]) = mw

Awaiting(c, mw, fn) == pc[c] = fn /\ stack[c] # <<>> /\ Head(stack[c]) = mw

\* The effect of a handler step on the response, the chain and the calls.
Resume(c, o) ==
  /\ sent' = [sent EXCEPT ![c] = @ \o o.send]
  /\ pc' = [pc EXCEPT ![c] =
              CASE o.then = "end" -> "done"
                [] o.then = "next" -> "mw"
                [] o.then = "throw" -> "hung"
                [] OTHER -> o.then]
  /\ stack' = [stack EXCEPT ![c] = IF o.then = "next" THEN Tail(@) ELSE @]
  /\ calls' = [calls EXCEPT ![c] = IF o.then \in Collaborators THEN Append(@, o.then) ELSE @]
  /\ escaped' = [escaped EXCEPT ![c] = @ \/ o.then = "throw"]

Fresh(c, r) ==
  /\ req' = [req EXCEPT ![c] = r]
  /\ pc' = [pc EXCEPT ![c] = "mw"]
  /\ stack' = [stack EXCEPT ![c] = AppStack(r.route)]
  /\ body' = [body EXCEPT ![c] = EmptyBody]
  /\ file' = [file EXCEPT ![c] = NoFile]
  /\ err' = [err EXCEPT ![c] = NoErr]
  /\ sent' = [sent EXCEPT ![c] = <<>>]
  /\ calls' = [calls EXCEPT ![c] = <<>>]
  /\ outs' = [outs EXCEPT ![c] = <<>>]
  /\ escaped' = [escaped EXCEPT ![c] = FALSE]

\* A request arrives on a connection that has none in flight.
Receive(c, r) ==
  /\ pc[c] \in {"idle", "done"}
  /\ Fresh(c, r)
  /\ UNCHANGED cfgKey

ExpressJson(c) ==
  /\ Running(c, "express.json")
  /\ LET j == JsonParse(req[c].entity) IN
       IF j.ok
         THEN /\ body' = [body EXCEPT ![c] = j.body]
              /\ stack' = [stack EXCEPT ![c] = Tail(@)]
              /\ UNCHANGED <<pc, err>>
         ELSE /\ err' = [err EXCEPT ![c] = j.error]
              /\ pc' = [pc EXCEPT ![c] = "error"]
              /\ UNCHANGED <<body, stack>>
  /\ UNCHANGED <<cfgKey, req, file, sent, calls, outs, escaped>>

\* cors({origin: [...], methods: [...]}): on GET and POST it only sets
\* response headers and calls next().
Cors(c) ==
  /\ Running(c, "cors")
  /\ stack' = [stack EXCEPT ![c] = Tail(@)]
  /\ UNCHANGED <<cfgKey, req, pc, body, file, err, sent, calls, outs, escaped>>

Health(c) ==
  /\ Running(c, "health")
  /\ Resume(c, HealthHandler)
  /\ UNCHANGED <<cfgKey, req, body, file, err, outs>>

Guard(c) ==
  /\ Running(c, "verifyKey")
  /\ Resume(c, VerifyKey(cfgKey, req[c].apiKey))
  /\ UNCHANGED <<cfgKey, req, body, file, err, outs>>

Upload(c) ==
  /\ Running(c, "upload.single")
  /\ calls' = [calls EXCEPT ![c] = Append(@, "upload.single")]
  /\ LET u == UploadSingle(req[c].entity) IN
       IF u.ok
         THEN /\ file' = [file EXCEPT ![c] = u.reqFile]
              /\ stack' = [stack EXCEPT ![c] = Tail(@)]
              /\ UNCHANGED <<pc, err>>
         ELSE /\ err' = [err EXCEPT ![c] = u.error]
              /\ pc' = [pc EXCEPT ![c] = "error"]
              /\ UNCHANGED <<file, stack>>
  /\ UNCHANGED <<cfgKey, req, body, sent, outs, escaped>>

ParseStart(c) ==
  /\ Running(c, "parse")
  /\ Resume(c, ParseBegins(body[c]))
  /\ UNCHANGED <<cfgKey, req, body, file, err, outs>>

FetchSettles(c, o) ==
  /\ Awaiting(c, "parse", "fetch")
  /\ outs' = [outs EXCEPT ![c] = Append(@, o)]
  /\ Resume(c, ParseFetched(o))
  /\ UNCHANGED <<cfgKey, req, body, file, err>>

ArrayBufferSettles(c, o) ==
  /\ Awaiting(c, "parse", "arrayBuffer")
  /\ outs' = [outs EXCEPT ![c] = Append(@, o)]
  /\ Resume(c, ParseRead(o))
  /\ UNCHANGED <<cfgKey, req, body, file, err>>

ParsePdfSettles(c, o) ==
  /\ Awaiting(c, "parse", "pdfParse")
  /\ outs' = [outs EXCEPT ![c] = Append(@, o)]
  /\ Resume(c, ParseExtracted(o))
  /\ UNCHANGED <<cfgKey, req, body, file, err>>

OcrStart(c) ==
  /\ Running(c, "ocr")
  /\ Resume(c, OcrBegins(file[c]))
  /\ UNCHANGED <<cfgKey, req, body, file, err, outs>>

OcrPdfSettles(c, o) ==
  /\ Awaiting(c, "ocr", "pdfParse")
  /\ outs' = [outs EXCEPT ![c] = Append(@, o)]
  /\ Resume(c, OcrExtracted(o, file[c].file.mimetype))
  /\ UNCHANGED <<cfgKey, req, body, file, err>>

RecognizeSettles(c, o) ==
  /\ Awaiting(c, "ocr", "recognize")
  /\ outs' = [outs EXCEPT ![c] = Append(@, o)]
  /\ Resume(c, OcrExtracted(o, file[c].file.mimetype))
  /\ UNCHANGED <<cfgKey, req, body, file, err>>

ErrorMiddleware(c) ==
  /\ pc[c] = "error"
  /\ sent' = [sent EXCEPT ![c] = Append(@, ErrorHandler(err[c]))]
  /\ pc' = [pc EXCEPT ![c] = "done"]
  /\ UNCHANGED <<cfgKey, req, stack, body, file, err, calls, outs, escaped>>

\* Everything the server does for the request on connection c.
Serve(c) ==
  \/ ExpressJson(c)
  \/ Cors(c)
  \/ Health(c)
  \/ Guard(c)
  \/ Upload(c)
  \/ ParseStart(c)
  \/ \E o \in FetchOutcomes : FetchSettles(c, o)
  \/ \E o \in ArrayBufferOutcomes : ArrayBufferSettles(c, o)
  \/ \E o \in ExtractOutcomes : ParsePdfSettles(c, o)
  \/ OcrStart(c)
  \/ \E o \in ExtractOutcomes : OcrPdfSettles(c, o)
  \/ \E o \in ExtractOutcomes : RecognizeSettles(c, o)
  \/ ErrorMiddleware(c)

Blank(p) ==
  /\ cfgKey \in CfgKeys
  /\ req = [c \in Conn |-> NoReq]
  /\ pc = p
  /\ stack = [c \in Conn |-> <<>>]
  /\ body = [c \in Conn |-> EmptyBody]
  /\ file = [c \in Conn |-> NoFile]
  /\ err = [c \in Conn |-> NoErr]
  /\ sent = [c \in Conn |-> <<>>]
  /\ calls = [c \in Conn |-> <<>>]
  /\ outs = [c \in Conn |-> <<>>]
  /\ escaped = [c \in Conn |-> FALSE]

\* The server after app.listen: one open connection, no request yet.
Init == Blank([c \in Conn |-> IF c = "c1" THEN "idle" ELSE "closed"])

Next ==
  \/ \E c \in Conn, r \in Requests : Receive(c, r)
  \/ \E c \in Conn : ExpressJson(c)
  \/ \E c \in Conn : Cors(c)
  \/ \E c \in Conn : Health(c)
  \/ \E c \in Conn : Guard(c)
  \/ \E c \in Conn : Upload(c)
  \/ \E c \in Conn : ParseStart(c)
  \/ \E c \in Conn, o \in FetchOutcomes : FetchSettles(c, o)
  \/ \E c \in Conn, o \in ArrayBufferOutcomes : ArrayBufferSettles(c, o)
  \/ \E c \in Conn, o \in ExtractOutcomes : ParsePdfSettles(c, o)
  \/ \E c \in Conn : OcrStart(c)
  \/ \E c \in Conn, o \in ExtractOutcomes : OcrPdfSettles(c, o)
  \/ \E c \in Conn, o \in ExtractOutcomes : RecognizeSettles(c, o)
  \/ \E c \in Conn : ErrorMiddleware(c)

Spec == Init /\ [][Next]_vars

\* The event loop runs every ready callback, and every collaborator call
\* settles (returns or fails): each connection's request keeps being served.
FairSpec == Spec /\ \A c \in Conn : WF_vars(Serve(c))

\* Two connections carrying the same request at the same time; each meets its
\* own collaborator outcomes.
InitPair ==
  \E r \in Requests :
    /\ cfgKey \in CfgKeys
    /\ req = [c \in Conn |-> r]
    /\ pc = [c \in Conn |-> "mw"]
    /\ stack = [c \in Conn |-> AppStack(r.route)]
    /\ body = [c \in Conn |-> EmptyBody]
    /\ file = [c \in Conn |-> NoFile]
    /\ err = [c \in Conn |-> NoErr]
    /\ sent = [c \in Conn |-> <<>>]
    /\ calls = [c \in Conn |-> <<>>]
    /\ outs = [c \in Conn |-> <<>>]
    /\ escaped = [c \in Conn |-> FALSE]

NextPair ==
  \/ \E c \in Conn : ExpressJson(c)
  \/ \E c \in Conn : Cors(c)
  \/ \E c \in Conn : Health(c)
  \/ \E c \in Conn : Guard(c)
  \/ \E c \in Conn : Upload(c)
  \/ \E c \in Conn : ParseStart(c)
  \/ \E c \in Conn, o \in FetchOutcomes : FetchSettles(c, o)
  \/ \E c \in Conn, o \in ArrayBufferOutcomes : ArrayBufferSettles(c, o)
  \/ \E c \in Conn, o \in ExtractOutcomes : ParsePdfSettles(c, o)
  \/ \E c \in Conn : OcrStart(c)
  \/ \E c \in Conn, o \in ExtractOutcomes : OcrPdfSettles(c, o)
  \/ \E c \in Conn, o \in ExtractOutcomes : RecognizeSettles(c, o)
  \/ \E c \in Conn : ErrorMiddleware(c)

SpecPair == InitPair /\ [][NextPair]_vars

---------------------------------------------------------------------------
\* Vocabulary of the properties.

Done(c) == pc[c] = "done"

IsPost(c) == req[c].route \in {"POST /parse", "POST /api/ocr"}

IsHealth(c) == req[c].route \in {"GET /", "GET /healthz"}

\* OCR_API_KEY is configured: set to a non-empty value.
Configured == cfgKey # Undefined /\ cfgKey # ""

\* The request carries the configured key.
KeyMatches(c) == req[c].apiKey = cfgKey

InStack(c, mw) == \E i \in 1..Len(stack[c]) : stack[c][i] = mw

\* The middleware ran and called next().
Passed(c, mw) == req[c] # NoReq /\ ~InStack(c, mw)

\* express.json did not fail on the request's entity.
BodyParsed(c) == req[c].entity.kind \notin {"json_malformed", "json_too_large"}

Invoked(c, fn) == \E i \in 1..Len(calls[c]) : calls[c][i] = fn

Count(c, fn) == Cardinality({i \in 1..Len(calls[c]) : calls[c][i] = fn})

TooLarge == [status |-> 400, body |-> [error |-> "File too large (max 10MB)"]]

---------------------------------------------------------------------------
\* C1 as stated: on both POST routes, with a key configured every request
\* whose x-api-key is absent or different is answered 401 Unauthorized, one
\* carrying the key proceeds to the route handler, and with no key configured
\* every request proceeds, whatever else the request holds.
C1_EveryRequest ==
  \A c \in Conn :
    (req[c] # NoReq /\ IsPost(c) /\ Done(c)) =>
      IF Configured /\ ~KeyMatches(c)
        THEN sent[c] = <<[status |-> 401, body |-> [error |-> "Unauthorized"]]>>
        ELSE Passed(c, "verifyKey")

\* C1 (amended): on both POST routes, every request that reaches the guard
\* (express.json did not fail on it) and that the guard has handled is, with a
\* key configured and x-api-key absent or different, answered 401
\* Unauthorized and goes no further; with the key matching, or with no key
\* configured, it has proceeded past the guard.
C1_Guard ==
  \A c \in Conn :
    (req[c] # NoReq /\ IsPost(c) /\ BodyParsed(c) /\ Passed(c, "cors")
       /\ ~Running(c, "verifyKey")) =>
      IF Configured /\ ~KeyMatches(c)
        THEN /\ sent[c] = <<[status |-> 401, body |-> [error |-> "Unauthorized"]]>>
             /\ Done(c)
             /\ InStack(c, "verifyKey")
        ELSE Passed(c, "verifyKey")

C1_Witness ==
  \E c \in Conn :
    /\ req[c] # NoReq /\ IsPost(c) /\ Configured
    /\ req[c].apiKey = "k2"
    /\ Done(c)
    /\ sent[c] = <<[status |-> 401, body |-> [error |-> "Unauthorized"]]>>

\* C2: a POST /parse request that passed the guard and whose body has file_url
\* absent or empty is answered 400 {error: "Missing file_url"}, and neither
\* fetch nor pdfParse is invoked for it.
C2_MissingFileUrl ==
  \A c \in Conn :
    (req[c].route = "POST /parse" /\ Passed(c, "verifyKey")
       /\ body[c].file_url \in {Undefined, ""} /\ ~Running(c, "parse")) =>
      /\ Done(c)
      /\ sent[c] = <<[status |-> 400, body |-> [error |-> "Missing file_url"]]>>
      /\ calls[c] = <<>>

C2_Witness ==
  \E c \in Conn :
    /\ req[c].route = "POST /parse" /\ Passed(c, "verifyKey")
    /\ req[c].entity.kind = "json" /\ req[c].entity.file_url = ""
    /\ Done(c)
    /\ sent[c] = <<[status |-> 400, body |-> [error |-> "Missing file_url"]]>>

\* The 502 bodies for the non-2xx statuses of the model.
C3_Body ==
  [s \in {301, 404, 503} |->
     CASE s = 301 -> "Failed to fetch PDF (301)"
       [] s = 404 -> "Failed to fetch PDF (404)"
       [] s = 503 -> "Failed to fetch PDF (503)"]

\* C3: a POST /parse request whose fetch returned a non-2xx status S is
\* answered 502 {error: "Failed to fetch PDF (S)"}; fetch was called once and
\* nothing else was called for the request.
C3_FetchFailed ==
  \A c \in Conn :
    (req[c].route = "POST /parse" /\ outs[c] # <<>>
       /\ outs[c][1].kind = "response" /\ outs[c][1].status \notin 200..299) =>
      /\ Done(c)
      /\ sent[c] = <<[status |-> 502, body |-> [error |-> C3_Body[outs[c][1].status]]]>>
      /\ calls[c] = <<"fetch">>

C3_Witness ==
  \E c \in Conn :
    /\ req[c].route = "POST /parse"
    /\ outs[c] = <<[kind |-> "response", status |-> 404]>>
    /\ sent[c] = <<[status |-> 502, body |-> [error |-> "Failed to fetch PDF (404)"]]>>

\* C4: a POST /parse request whose fetch itself fails (remote URL
\* unreachable) is answered 502, like a fetch that returns non-2xx.
C4_Unreachable502 ==
  \A c \in Conn :
    (req[c].route = "POST /parse" /\ Done(c) /\ outs[c] # <<>>
       /\ outs[c][1].kind = "throw") =>
      (sent[c] # <<>> /\ sent[c][1].status = 502)

\* The calls to the two extraction collaborators.
Extractions(c) == SelectSeq(calls[c], LAMBDA fn : fn \in {"pdfParse", "recognize"})

\* C5: for an upload that reached the /api/ocr handler: application/pdf
\* invokes only pdfParse, a type starting with image/ only the OCR engine, any
\* other type neither and is answered 400 Unsupported file type; when the
\* collaborator succeeds the answer is 200 with success true and fileType the
\* declared type.
C5_Dispatch ==
  \A c \in Conn :
    (req[c].route = "POST /api/ocr" /\ Passed(c, "upload.single")
       /\ file[c].hasFile /\ ~Running(c, "ocr")) =>
      LET m == file[c].file.mimetype IN
      /\ m = S_application_pdf => Extractions(c) = <<"pdfParse">>
      /\ m \in {S_image_png, S_image_slash} => Extractions(c) = <<"recognize">>
      /\ m \in {S_application_x_pdf, S_imagex_png, S_text_plain} =>
           /\ Extractions(c) = <<>>
           /\ Done(c)
           /\ sent[c] = <<[status |-> 400,
                           body |-> [error |-> "Unsupported file type. Upload a PDF or image."]]>>
      /\ (outs[c] # <<>> /\ outs[c][1].kind = "ok") =>
           /\ Done(c)
           /\ Len(sent[c]) = 1
           /\ sent[c][1].status = 200
           /\ sent[c][1].body.success = TRUE
           /\ sent[c][1].body.fileType = m

C5_Witness ==
  \E c \in Conn :
    /\ req[c].route = "POST /api/ocr"
    /\ file[c].hasFile /\ file[c].file.mimetype = S_application_pdf
    /\ calls[c] = <<"upload.single", "pdfParse">>
    /\ Done(c)
    /\ sent[c][1].status = 200
    /\ sent[c][1].body.fileType = S_application_pdf

\* The request on c uploads a file part longer than the configured maximum.
Oversized(c) ==
  /\ req[c].route = "POST /api/ocr"
  /\ req[c].entity.kind = "multipart"
  /\ req[c].entity.parts # <<>>
  /\ req[c].entity.parts[1].size > 10485760

\* C6 as stated: every upload larger than 10 MiB is answered 400 {error:
\* "File too large (max 10MB)"} before the route handler runs, whatever its
\* declared content type, and neither extractor is invoked.
C6_EveryOversized ==
  \A c \in Conn :
    (req[c] # NoReq /\ Oversized(c) /\ Done(c)) =>
      /\ sent[c] = <<TooLarge>>
      /\ Extractions(c) = <<>>
      /\ ~Passed(c, "upload.single")

\* C6 (amended): every upload larger than 10 MiB that is sent under the field
\* name `file` on a request that passed the API-key guard is answered 400
\* {error: "File too large (max 10MB)"} before the route handler runs,
\* whatever its declared content type, and neither extractor is invoked.
C6_Oversized ==
  \A c \in Conn :
    (req[c] # NoReq /\ Oversized(c) /\ req[c].entity.parts[1].fieldname = "file"
       /\ Passed(c, "verifyKey")) =>
      /\ Extractions(c) = <<>>
      /\ ~Passed(c, "upload.single")
      /\ Done(c) => sent[c] = <<TooLarge>>

C6_Witness ==
  \E c \in Conn :
    /\ req[c] # NoReq /\ Oversized(c)
    /\ req[c].entity.parts[1].mimetype = S_text_plain
    /\ Passed(c, "verifyKey")
    /\ calls[c] = <<"upload.single">>
    /\ sent[c] = <<TooLarge>>

\* C7 as stated: GET / and GET /healthz always answer 200 with ok: true, in
\* every API-key configuration.
C7_AlwaysOk ==
  \A c \in Conn :
    (req[c] # NoReq /\ IsHealth(c) /\ Done(c)) =>
      /\ Len(sent[c]) = 1
      /\ sent[c][1].status = 200
      /\ sent[c][1].body.ok = TRUE

\* C7 (amended): GET / and GET /healthz answer 200 with ok: true in every
\* API-key configuration, provided express.json does not fail on the request
\* (a malformed or oversized JSON entity is answered 500 by the error
\* handler); the API-key guard is never applied to them and they invoke no
\* collaborator.
C7_Health ==
  \A c \in Conn :
    (req[c] # NoReq /\ IsHealth(c)) =>
      /\ ~InStack(c, "verifyKey")
      /\ calls[c] = <<>>
      /\ (Done(c) /\ BodyParsed(c)) =>
           /\ Len(sent[c]) = 1
           /\ sent[c][1].status = 200
           /\ sent[c][1].body.ok = TRUE

C7_Witness ==
  \E c \in Conn :
    /\ req[c] # NoReq /\ IsHealth(c)
    /\ Configured /\ req[c].apiKey = "k2"
    /\ Done(c)
    /\ sent[c][1].status = 200
    /\ sent[c][1].body.ok = TRUE

\* A collaborator outcome without the detail of its failure.
Erase(o) == IF o.kind = "throw" THEN [kind |-> "throw"] ELSE o

EraseAll(os) == [i \in 1..Len(os) |-> Erase(os[i])]

Failed(c) == \E i \in 1..Len(outs[c]) : outs[c][i].kind = "throw"

C9_OneResponse ==
  /\ [](\A c \in Conn :
          /\ Len(sent[c]) <= 1
          /\ ~escaped[c]
          /\ pc[c] # "hung"
          /\ \A i \in 1..Len(sent[c]) : sent[c][i].status \in {200, 400, 401, 502, 500}
          /\ Done(c) => Len(sent[c]) = 1)
  /\ \A c \in Conn : InFlight(c) ~> (Done(c) /\ Len(sent[c]) = 1)

C9_Witness ==
  \E c \in Conn :
    /\ Done(c)
    /\ req[c].route = "POST /api/ocr"
    /\ Failed(c)
    /\ Len(sent[c]) = 1
    /\ sent[c][1].status = 500

\* C10 as stated: with a key configured, a POST request that omits it or
\* sends a wrong value is answered 401 whatever else it holds, and the upload
\* parser, fetch, pdfParse and the OCR engine are never invoked for it.
C10_Always401 ==
  \A c \in Conn :
    (req[c] # NoReq /\ IsPost(c) /\ Configured /\ ~KeyMatches(c)) =>
      /\ calls[c] = <<>>
      /\ Done(c) => sent[c] = <<[status |-> 401, body |-> [error |-> "Unauthorized"]]>>

\* C10 (amended): with a key configured, a POST request that omits it or
\* sends a wrong value never has the upload parser, fetch, pdfParse or the OCR
\* engine invoked, and, unless express.json fails on its entity (then the
\* error handler answers 500), it is answered 401, also when the upload is
\* oversized, missing or of an unsupported type.
C10_GuardFirst ==
  \A c \in Conn :
    (req[c] # NoReq /\ IsPost(c) /\ Configured /\ ~KeyMatches(c)) =>
      /\ calls[c] = <<>>
      /\ ~Passed(c, "verifyKey")
      /\ (Done(c) /\ BodyParsed(c)) =>
           sent[c] = <<[status |-> 401, body |-> [error |-> "Unauthorized"]]>>

C10_Witness ==
  \E c \in Conn :
    /\ req[c] # NoReq /\ Oversized(c)
    /\ Configured /\ ~KeyMatches(c)
    /\ Done(c)
    /\ calls[c] = <<>>
    /\ sent[c] = <<[status |-> 401, body |-> [error |-> "Unauthorized"]]>>

====
